---- MODULE Spec2Model ----
(***************************************************************************)
(* Model of shared.ServiceRegistry (src/shared/service_registry.go).       *)
(*                                                                         *)
(* The registry is driven by one caller thread (the registry has no lock;  *)
(* its operations are not overlapped by the caller), while every Start     *)
(* dispatched by StartAll runs in a goroutine of its own.  StartAll and    *)
(* StopAll are modelled step by step, because goroutines run between their *)
(* steps and because a Stop call may block; RegisterService, FetchService, *)
(* Statuses and NewServiceContext are one step each.                       *)
(*                                                                         *)
(* Values the caller passes: services are non-nil instances, each of one   *)
(* concrete type; service contexts are the ones NewServiceContext made     *)
(* (the caller may pass the same one to several registrations); fetch      *)
(* targets are non-nil values, either pointers to a cell or plain values.  *)
(***************************************************************************)
EXTENDS Integers, Sequences, FiniteSets, TLC

\* ---------------------------------------------------------------- bounds
NumTypes == 2
InstPerType == 2
MaxCtx == 2
MaxTasks == 3

\* ---------------------------------------------------------------- values
\* reflect.Type of the registered services: the concrete types.
Types == 1..NumTypes
\* A type no service instance has (a cell declared with an interface type).
InterfaceType == NumTypes + 1
DeclTypes == Types \cup {InterfaceType}
\* Service instances (references); NoInstance is the nil content of a cell.
Instances == 1..(NumTypes * InstPerType)
NoInstance == 0
\* reflect.TypeOf(service): the concrete type of an instance.
TypeOf(inst) == ((inst - 1) % NumTypes) + 1

NoError == "nil"
ErrExists == "service already exists"
ErrNotPtr == "input must be of pointer type"
ErrUnknown == "unknown service"
\* What a service's Stop and Status may return.
StopResults == {NoError, "stop failed"}
StatusResults == {NoError, "unhealthy"}

\* The argument of FetchService: a pointer to a cell declared with type
\* `type` and holding `val`, or (ptr = FALSE) a plain value of type `type`.
PtrTargets ==
  {t \in [ptr : {TRUE}, type : DeclTypes, val : Instances \cup {NoInstance}] :
     t.val = NoInstance \/ (t.type \in Types /\ TypeOf(t.val) = t.type)}
ValueTargets == [ptr : {FALSE}, type : DeclTypes, val : {NoInstance}]
Targets == PtrTargets \cup ValueTargets
NoTarget == [ptr |-> FALSE, type |-> InterfaceType, val |-> NoInstance]

VARIABLES
  services,      \* s.services: type -> instance
  contexts,      \* s.contexts: type -> service context
  serviceTypes,  \* s.serviceTypes: the types in order of registration
  nctx,          \* number of service contexts NewServiceContext has made
  cancelled,     \* the service contexts whose Ctx is cancelled
  tasks,         \* the goroutines StartAll has started, in dispatch order
  pc,            \* where the caller thread is
  i,             \* loop index of the running StartAll / StopAll
  call           \* the caller's current (pc # "idle") or last call

vars == <<services, contexts, serviceTypes, nctx, cancelled, tasks, pc, i, call>>

\* ---------------------------------------------------------------- helpers
Range(s) == {s[x] : x \in DOMAIN s}

Event(ev, kind, res) ==
  [ev |-> ev, kind |-> kind, svc |-> services[kind], ctx |-> contexts[kind],
   res |-> res]

NewCall(op) ==
  [op |-> op, svc |-> NoInstance, ctx |-> 0, target |-> NoTarget,
   err |-> NoError, cell |-> NoInstance, m |-> <<>>, log |-> <<>>]

\* ---------------------------------------------------------------- Init
Init ==
  /\ services = <<>>
  /\ contexts = <<>>
  /\ serviceTypes = <<>>
  /\ nctx = 0
  /\ cancelled = {}
  /\ tasks = <<>>
  /\ pc = "idle"
  /\ i = 0
  /\ call = NewCall("NewServiceRegistry")

\* ---------------------------------------------------------------- NewServiceContext
NewServiceContext ==
  /\ pc = "idle"
  /\ nctx < MaxCtx
  /\ nctx' = nctx + 1
  /\ call' = [NewCall("NewServiceContext") EXCEPT !.ctx = nctx + 1]
  /\ UNCHANGED <<services, contexts, serviceTypes, cancelled, tasks, pc, i>>

\* ---------------------------------------------------------------- RegisterService
\* Mutant: a second registration of a type replaces the stored instance and
\* context instead of being rejected.
RegisterResultReplace(svcs, ctxs, order, service, serviceCtx) ==
  LET kind == TypeOf(service) IN
  [err |-> IF kind \in DOMAIN svcs THEN ErrExists ELSE NoError,
   services |-> [k \in DOMAIN svcs \cup {kind} |->
                   IF k = kind THEN service ELSE svcs[k]],
   contexts |-> [k \in DOMAIN ctxs \cup {kind} |->
                   IF k = kind THEN serviceCtx ELSE ctxs[k]],
   serviceTypes |-> IF kind \in DOMAIN svcs THEN order ELSE Append(order, kind)]

\* Mutant: no check for an existing registration of the type.
RegisterResultNoCheck(svcs, ctxs, order, service, serviceCtx) ==
  LET kind == TypeOf(service) IN
  [err |-> NoError,
   services |-> [k \in DOMAIN svcs \cup {kind} |->
                   IF k = kind THEN service ELSE svcs[k]],
   contexts |-> [k \in DOMAIN ctxs \cup {kind} |->
                   IF k = kind THEN serviceCtx ELSE ctxs[k]],
   serviceTypes |-> Append(order, kind)]

\* The registry after RegisterService(service, serviceCtx), and its error.
RegisterResult(svcs, ctxs, order, service, serviceCtx) ==
  LET kind == TypeOf(service) IN
  IF kind \in DOMAIN svcs
  THEN [err |-> ErrExists, services |-> svcs, contexts |-> ctxs,
        serviceTypes |-> order]
  ELSE [err |-> NoError,
        services |-> [k \in DOMAIN svcs \cup {kind} |->
                        IF k = kind THEN service ELSE svcs[k]],
        contexts |-> [k \in DOMAIN ctxs \cup {kind} |->
                        IF k = kind THEN serviceCtx ELSE ctxs[k]],
        serviceTypes |-> Append(order, kind)]

\* Mutant: a service registered after StartAll has run is started at once.
RegisterServiceAutoStart ==
  /\ pc = "idle"
  /\ \E service \in Instances, serviceCtx \in 1..nctx :
       LET r == RegisterResult(services, contexts, serviceTypes, service,
                               serviceCtx) IN
       /\ services' = r.services
       /\ contexts' = r.contexts
       /\ serviceTypes' = r.serviceTypes
       /\ call' = [NewCall("RegisterService") EXCEPT
                     !.svc = service, !.ctx = serviceCtx, !.err = r.err]
       /\ tasks' = IF r.err = NoError /\ tasks # <<>>
                   THEN Append(tasks, [kind |-> TypeOf(service),
                                       svc |-> service, ctx |-> serviceCtx,
                                       st |-> "dispatched",
                                       round |-> tasks[Len(tasks)].round])
                   ELSE tasks
  /\ UNCHANGED <<nctx, cancelled, pc, i>>

RegisterService ==
  /\ pc = "idle"
  /\ \E service \in Instances, serviceCtx \in 1..nctx :
       LET r == RegisterResult(services, contexts, serviceTypes, service,
                               serviceCtx) IN
       /\ services' = r.services
       /\ contexts' = r.contexts
       /\ serviceTypes' = r.serviceTypes
       /\ call' = [NewCall("RegisterService") EXCEPT
                     !.svc = service, !.ctx = serviceCtx, !.err = r.err]
  /\ UNCHANGED <<nctx, cancelled, tasks, pc, i>>

\* ---------------------------------------------------------------- StartAll
\* Mutant: StartAll walks the order sequence backwards.
StartKindReverse(order, j) == order[Len(order) + 1 - j]

\* The type whose Start the j-th iteration of StartAll's loop dispatches.
StartKind(order, j) == order[j]

\* Mutant: every Start gets the context of the lowest registered type.
StartCtxFirst(ctxs, kind) ==
  ctxs[CHOOSE k \in DOMAIN ctxs : \A x \in DOMAIN ctxs : k <= x]

\* The context handed to Start: s.contexts[kind].Ctx.
StartCtx(ctxs, kind) == ctxs[kind]

\* Mutant: a service whose Start was dispatched before is not started again.
DispatchOnce(ts, kind, svc, ctx, round) ==
  IF \E t \in DOMAIN ts : ts[t].kind = kind
  THEN ts
  ELSE Append(ts, [kind |-> kind, svc |-> svc, ctx |-> ctx,
                   st |-> "dispatched", round |-> round])

\* `go s.services[kind].Start(s.contexts[kind].Ctx)`: one new goroutine, its
\* receiver and argument evaluated by the caller.
Dispatch(ts, kind, svc, ctx, round) ==
  Append(ts, [kind |-> kind, svc |-> svc, ctx |-> ctx, st |-> "dispatched",
              round |-> round])

\* The number of the StartAll call that is running (a history value).
Round == IF call.log = <<>>
         THEN (IF tasks = <<>> THEN 1 ELSE tasks[Len(tasks)].round + 1)
         ELSE tasks[Len(tasks)].round

StartAllCall ==
  /\ pc = "idle"
  /\ Len(tasks) + Len(serviceTypes) <= MaxTasks
  /\ pc' = "StartAll"
  /\ i' = 1
  /\ call' = NewCall("StartAll")
  /\ UNCHANGED <<services, contexts, serviceTypes, nctx, cancelled, tasks>>

StartAllDispatch ==
  /\ pc = "StartAll"
  /\ i <= Len(serviceTypes)
  /\ LET kind == StartKind(serviceTypes, i)
         ctx == StartCtx(contexts, kind) IN
       /\ tasks' = Dispatch(tasks, kind, services[kind], ctx, Round)
       /\ call' = [call EXCEPT !.log =
                     Append(@, [Event("go Start", kind, NoError) EXCEPT
                                  !.ctx = ctx])]
  /\ i' = i + 1
  /\ UNCHANGED <<services, contexts, serviceTypes, nctx, cancelled, pc>>

StartAllReturn ==
  /\ pc = "StartAll"
  /\ i > Len(serviceTypes)
  /\ pc' = "idle"
  /\ i' = 0
  /\ UNCHANGED <<services, contexts, serviceTypes, nctx, cancelled, tasks, call>>

\* A dispatched goroutine is scheduled: the service's Start begins.
StartBegin ==
  \E t \in DOMAIN tasks :
    /\ tasks[t].st = "dispatched"
    /\ tasks' = [tasks EXCEPT ![t].st = "running"]
    /\ UNCHANGED <<services, contexts, serviceTypes, nctx, cancelled, pc, i,
                   call>>

\* A running Start returns (it need not: a Start may run for ever).
StartReturn ==
  \E t \in DOMAIN tasks :
    /\ tasks[t].st = "running"
    /\ tasks' = [tasks EXCEPT ![t].st = "returned"]
    /\ UNCHANGED <<services, contexts, serviceTypes, nctx, cancelled, pc, i,
                   call>>

\* ---------------------------------------------------------------- StopAll
\* Mutant: the loop index starts one position too low.
StopFirstSkipLast(order) == Len(order) - 1

\* i := len(s.serviceTypes) - 1 (the model counts positions from 1).
StopFirst(order) == Len(order)

\* Mutant: StopAll walks the order sequence forwards.
StopKindForward(order, j) == order[Len(order) + 1 - j]

\* kind := s.serviceTypes[i]
StopKind(order, j) == order[j]

\* Mutant: a Stop error ends the loop.
StopNextAbortOnError(j, err) == IF err = NoError THEN j - 1 ELSE 0

\* What follows the Stop call of position j that returned err: the error is
\* logged, the loop goes on with i--.
StopNext(j, err) == j - 1

\* Mutant: Cancel reaches every service context (one root shared by all).
CancelEverything(cset, ctx, err) == cset \cup (1..MaxCtx)

\* Mutant: the context is cancelled only when Stop reported no error.
CancelUnlessError(cset, ctx, err) ==
  IF err = NoError THEN cset \cup {ctx} ELSE cset

\* ctx.Cancel() after the Stop call returned err.
CancelAfterStop(cset, ctx, err) == cset \cup {ctx}

StopAllCall ==
  /\ pc = "idle"
  /\ pc' = "StopAll"
  /\ i' = StopFirst(serviceTypes)
  /\ call' = NewCall("StopAll")
  /\ UNCHANGED <<services, contexts, serviceTypes, nctx, cancelled, tasks>>

\* Mutant: the context is cancelled before Stop is called, not after.
StopInvokeCancelFirst ==
  /\ pc = "StopAll"
  /\ i >= 1
  /\ pc' = "Stop"
  /\ LET kind == StopKind(serviceTypes, i) IN
       /\ cancelled' = cancelled \cup {contexts[kind]}
       /\ call' = [call EXCEPT !.log =
                     Append(Append(@, Event("Cancel", kind, NoError)),
                            Event("Stop", kind, NoError))]
  /\ UNCHANGED <<services, contexts, serviceTypes, nctx, tasks, i>>

\* Mutant: StopAll calls Stop only once every dispatched Start of the service
\* has begun.
StopInvokeAfterStart ==
  /\ pc = "StopAll"
  /\ i >= 1
  /\ \A t \in DOMAIN tasks :
       tasks[t].kind = StopKind(serviceTypes, i) => tasks[t].st # "dispatched"
  /\ pc' = "Stop"
  /\ call' = [call EXCEPT !.log =
                Append(@, Event("Stop", StopKind(serviceTypes, i), NoError))]
  /\ UNCHANGED <<services, contexts, serviceTypes, nctx, cancelled, tasks, i>>

\* service.Stop(ctx.Ctx) is called; the caller thread is now inside it.
StopInvoke ==
  /\ pc = "StopAll"
  /\ i >= 1
  /\ pc' = "Stop"
  /\ call' = [call EXCEPT !.log =
                Append(@, Event("Stop", StopKind(serviceTypes, i), NoError))]
  /\ UNCHANGED <<services, contexts, serviceTypes, nctx, cancelled, tasks, i>>

\* The Stop call returns, with an error or without (it need not return).
StopReturn ==
  /\ pc = "Stop"
  /\ \E err \in StopResults :
       call' = [call EXCEPT
                  !.log = Append(@, Event("Stop returned",
                                          StopKind(serviceTypes, i), err))]
  /\ pc' = "Cancel"
  /\ UNCHANGED <<services, contexts, serviceTypes, nctx, cancelled, tasks, i>>

\* The error the Stop call that just returned reported (the local err).
StopErr == call.log[Len(call.log)].res

\* Mutant: StopAll gives up waiting for a Stop call and goes on to Cancel.
StopCancelOnTimeout ==
  /\ pc \in {"Stop", "Cancel"}
  /\ LET kind == StopKind(serviceTypes, i) IN
       /\ cancelled' = CancelAfterStop(cancelled, contexts[kind], StopErr)
       /\ call' = [call EXCEPT
                     !.log = Append(@, Event("Cancel", kind, NoError))]
  /\ i' = StopNext(i, StopErr)
  /\ pc' = "StopAll"
  /\ UNCHANGED <<services, contexts, serviceTypes, nctx, tasks>>

\* Mutant: StopAll removes the stopped service from the instance map.
StopCancelDeleting ==
  /\ pc = "Cancel"
  /\ LET kind == StopKind(serviceTypes, i) IN
       /\ cancelled' = CancelAfterStop(cancelled, contexts[kind], StopErr)
       /\ call' = [call EXCEPT
                     !.log = Append(@, Event("Cancel", kind, NoError))]
       /\ services' = [k \in DOMAIN services \ {kind} |-> services[k]]
  /\ i' = StopNext(i, StopErr)
  /\ pc' = "StopAll"
  /\ UNCHANGED <<contexts, serviceTypes, nctx, tasks>>

\* ctx.Cancel(), then i--.
StopCancel ==
  /\ pc = "Cancel"
  /\ LET kind == StopKind(serviceTypes, i) IN
       /\ cancelled' = CancelAfterStop(cancelled, contexts[kind], StopErr)
       /\ call' = [call EXCEPT
                     !.log = Append(@, Event("Cancel", kind, NoError))]
  /\ i' = StopNext(i, StopErr)
  /\ pc' = "StopAll"
  /\ UNCHANGED <<services, contexts, serviceTypes, nctx, tasks>>

StopAllReturn ==
  /\ pc = "StopAll"
  /\ i < 1
  /\ pc' = "idle"
  /\ UNCHANGED <<services, contexts, serviceTypes, nctx, cancelled, tasks, i,
                 call>>

\* ---------------------------------------------------------------- Statuses
\* The loop of Statuses from position j on: m is the map built so far, log
\* the Status calls made so far, res[kind] what Status() of kind returns.
RECURSIVE StatusesLoop(_, _, _, _, _, _)
StatusesLoop(order, svcs, res, j, m, log) ==
  IF j > Len(order) THEN [m |-> m, log |-> log]
  ELSE LET kind == order[j] IN
       StatusesLoop(order, svcs, res, j + 1,
                    [k \in DOMAIN m \cup {kind} |->
                       IF k = kind THEN res[kind] ELSE m[k]],
                    Append(log, [ev |-> "Status", kind |-> kind,
                                 svc |-> svcs[kind], ctx |-> 0,
                                 res |-> res[kind]]))

\* Mutant: the loop starts one position late.
StatusesResultSkipFirst(order, svcs, res) ==
  StatusesLoop(order, svcs, res, 2, <<>>, <<>>)

StatusesResult(order, svcs, res) == StatusesLoop(order, svcs, res, 1, <<>>, <<>>)

\* Mutant: Statuses cancels the context of every service that reports an error.
StatusesCancelling ==
  /\ pc = "idle"
  /\ \E res \in [DOMAIN services -> StatusResults] :
       LET r == StatusesResult(serviceTypes, services, res) IN
       /\ call' = [NewCall("Statuses") EXCEPT !.m = r.m, !.log = r.log]
       /\ cancelled' = cancelled \cup
                         {contexts[k] : k \in {x \in DOMAIN services :
                                                 res[x] # NoError}}
  /\ UNCHANGED <<services, contexts, serviceTypes, nctx, tasks, pc, i>>

Statuses ==
  /\ pc = "idle"
  /\ \E res \in [DOMAIN services -> StatusResults] :
       LET r == StatusesResult(serviceTypes, services, res) IN
       call' = [NewCall("Statuses") EXCEPT !.m = r.m, !.log = r.log]
  /\ UNCHANGED <<services, contexts, serviceTypes, nctx, cancelled, tasks, pc,
                 i>>

\* ---------------------------------------------------------------- FetchService
\* Mutant: the check that the argument is a pointer is missing.
FetchResultNoPtrCheck(svcs, target) ==
  IF target.type \in DOMAIN svcs
  THEN [err |-> NoError, cell |-> svcs[target.type]]
  ELSE [err |-> ErrUnknown, cell |-> target.val]

\* Mutant: a failed lookup sets the cell to nil.
FetchResultClearsOnUnknown(svcs, target) ==
  IF ~target.ptr
  THEN [err |-> ErrNotPtr, cell |-> target.val]
  ELSE IF target.type \in DOMAIN svcs
       THEN [err |-> NoError, cell |-> svcs[target.type]]
       ELSE [err |-> ErrUnknown, cell |-> NoInstance]

\* The error FetchService returns and the content of the target's cell after.
FetchResult(svcs, target) ==
  IF ~target.ptr
  THEN [err |-> ErrNotPtr, cell |-> target.val]
  ELSE IF target.type \in DOMAIN svcs
       THEN [err |-> NoError, cell |-> svcs[target.type]]
       ELSE [err |-> ErrUnknown, cell |-> target.val]

FetchService ==
  /\ pc = "idle"
  /\ \E target \in Targets :
       LET r == FetchResult(services, target) IN
       call' = [NewCall("FetchService") EXCEPT
                  !.target = target, !.err = r.err, !.cell = r.cell]
  /\ UNCHANGED <<services, contexts, serviceTypes, nctx, cancelled, tasks, pc,
                 i>>

\* ---------------------------------------------------------------- Next
Next ==
  \/ NewServiceContext
  \/ RegisterService
  \/ StartAllCall
  \/ StartAllDispatch
  \/ StartAllReturn
  \/ StartBegin
  \/ StartReturn
  \/ StopAllCall
  \/ StopInvoke
  \/ StopReturn
  \/ StopCancel
  \/ StopAllReturn
  \/ Statuses
  \/ FetchService

Spec == Init /\ [][Next]_vars

\* The caller thread goes on running inside StopAll, and every Stop call
\* returns (the hypothesis under which StopAll is said to terminate).
FairSpec ==
  /\ Spec
  /\ WF_vars(StopInvoke)
  /\ WF_vars(StopReturn)
  /\ WF_vars(StopCancel)
  /\ WF_vars(StopAllReturn)

\* ================================================================ claims
Registered == Range(serviceTypes)
N == Len(serviceTypes)
Idle(op) == pc = "idle" /\ call.op = op

IsStopCall(e) == e.ev = "Stop"
IsStopReturn(e) == e.ev = "Stop returned"
IsStopCallOrReturn(e) == e.ev \in {"Stop", "Stop returned"}
IsCancel(e) == e.ev = "Cancel"
IsDispatch(e) == e.ev = "go Start"
StopCalls == SelectSeq(call.log, IsStopCall)
Dispatches == SelectSeq(call.log, IsDispatch)

\* ---------------------------------------------------------------- C1
\* C1: during and after a StopAll, the Stop calls made so far go to the
\* services in exact reverse order of registration (the p-th Stop call goes
\* to the service registered p-th from the end), every Stop call but the
\* last has returned before the next is made (calls and returns alternate,
\* so no two Stop calls overlap), and when StopAll has returned there were
\* exactly as many Stop calls as registered services.
C1_StopAllReverseSequential ==
  call.op = "StopAll" =>
    LET se == SelectSeq(call.log, IsStopCallOrReturn) IN
    /\ \A p \in DOMAIN StopCalls :
         /\ p <= N
         /\ StopCalls[p].kind = serviceTypes[N - p + 1]
         /\ StopCalls[p].svc = services[serviceTypes[N - p + 1]]
    /\ \A p \in DOMAIN se :
         IF p % 2 = 1
         THEN se[p].ev = "Stop"
         ELSE se[p].ev = "Stop returned" /\ se[p].kind = se[p - 1].kind
    /\ (pc = "idle" => Len(StopCalls) = N /\ Len(se) = 2 * N)

\* A StopAll of a registry holding every type has returned.
C1_Witness == Idle("StopAll") /\ N = NumTypes /\ N >= 2

\* ---------------------------------------------------------------- C2
\* The dispatches of one StartAll: one per registered service, each with
\* the instance and the context registered for that service.
DispatchedOnceEachWithOwnScope ==
  /\ Len(Dispatches) = N
  /\ \A k \in Registered :
       \E p \in DOMAIN Dispatches :
         /\ Dispatches[p].kind = k
         /\ Dispatches[p].svc = services[k]
         /\ Dispatches[p].ctx = contexts[k]
         /\ \A q \in DOMAIN Dispatches : Dispatches[q].kind = k => q = p
  /\ Len(tasks) >= Len(Dispatches)
  /\ \A p \in DOMAIN Dispatches :
       LET t == tasks[Len(tasks) - Len(Dispatches) + p] IN
       /\ t.kind = Dispatches[p].kind
       /\ t.svc = Dispatches[p].svc
       /\ t.ctx = Dispatches[p].ctx

\* C2 as stated: when StartAll has returned it has dispatched Start exactly
\* once for each registered service with that service's registered scope,
\* and the scopes of any two registered services are distinct.
C2_Original ==
  Idle("StartAll") =>
    /\ DispatchedOnceEachWithOwnScope
    /\ \A a, b \in Registered : a # b => contexts[a] # contexts[b]

\* C2 amended: when StartAll has returned it has dispatched Start exactly
\* once for each registered service, passing the scope that service was
\* registered with (two services get the same scope when they were
\* registered with the same service context); and StartAll never waits for
\* a Start: whatever the goroutines have done, its next step (a dispatch or
\* the return) can be taken.
C2_StartAllDispatchesOnceEach ==
  /\ (Idle("StartAll") =>
        /\ DispatchedOnceEachWithOwnScope
        /\ \A a, b \in Registered :
             (contexts[a] = contexts[b]) <=>
               (\A p, q \in DOMAIN Dispatches :
                  Dispatches[p].kind = a /\ Dispatches[q].kind = b
                    => Dispatches[p].ctx = Dispatches[q].ctx))
  /\ (pc = "StartAll" => ENABLED (StartAllDispatch \/ StartAllReturn))

\* StartAll has returned for two services with contexts of their own while
\* none of the Starts it dispatched has begun.
C2_Witness ==
  /\ Idle("StartAll")
  /\ N >= 2
  /\ \E a, b \in Registered : contexts[a] # contexts[b]
  /\ \A t \in DOMAIN tasks : tasks[t].st = "dispatched"

\* ---------------------------------------------------------------- C3
Pos(kind) == CHOOSE p \in DOMAIN serviceTypes : serviceTypes[p] = kind
SameStartAll(p, q) == tasks[p].round = tasks[q].round

C4_StopAllStopsEveryService ==
  Idle("StopAll") =>
    /\ \A k \in Registered :
         Cardinality({p \in DOMAIN StopCalls : StopCalls[p].kind = k}) = 1
    /\ call.err = NoError

\* StopAll has returned after the Stop of the last registered service
\* returned an error.
C4_Witness ==
  /\ Idle("StopAll")
  /\ N >= 2
  /\ \E p \in DOMAIN call.log :
       /\ call.log[p].ev = "Stop returned"
       /\ call.log[p].kind = serviceTypes[N]
       /\ call.log[p].res # NoError

\* ---------------------------------------------------------------- C5
\* C5: once StopAll has processed a service (its Stop call has returned and
\* StopAll has gone past its Cancel), the scope of that service is
\* cancelled, whether the Stop call returned an error or not; when StopAll
\* has returned, the scope of every registered service is cancelled.
C5_StoppedScopesCancelled ==
  call.op = "StopAll" =>
    /\ \A p \in DOMAIN call.log :
         (call.log[p].ev = "Stop returned"
            /\ ~(pc = "Cancel" /\ p = Len(call.log)))
           => /\ call.log[p].ctx \in cancelled
              /\ contexts[call.log[p].kind] \in cancelled
    /\ (pc = "idle" => \A k \in Registered : contexts[k] \in cancelled)

\* StopAll has returned; one Stop call returned an error, another did not.
C5_Witness ==
  /\ Idle("StopAll")
  /\ \E p, q \in DOMAIN call.log :
       /\ call.log[p].ev = "Stop returned" /\ call.log[p].res # NoError
       /\ call.log[q].ev = "Stop returned" /\ call.log[q].res = NoError
       /\ call.log[p].ctx # call.log[q].ctx

\* ---------------------------------------------------------------- C6
\* The pointer to an empty cell declared with the type kind.
CellOf(kind) == [ptr |-> TRUE, type |-> kind, val |-> NoInstance]

\* C6: a step in which RegisterService returns for a service whose type is
\* already registered reports the already-exists error and leaves the
\* instance map, the context map and the order sequence as they were, and a
\* FetchService for that type made after it succeeds with the instance
\* stored before the call.
C6_DuplicateRegistrationRejected ==
  [][(call'.op = "RegisterService" /\ call' # call
        /\ TypeOf(call'.svc) \in DOMAIN services)
       => /\ call'.err = ErrExists
          /\ services' = services
          /\ contexts' = contexts
          /\ serviceTypes' = serviceTypes
          /\ FetchResult(services', CellOf(TypeOf(call'.svc))) =
               [err |-> NoError, cell |-> services[TypeOf(call'.svc)]]]_vars

\* A registration of a second instance of a registered type, with another
\* context than the registered one, has been rejected.
C6_Witness ==
  /\ Idle("RegisterService")
  /\ call.err = ErrExists
  /\ call.svc # services[TypeOf(call.svc)]
  /\ call.ctx # contexts[TypeOf(call.svc)]

\* ---------------------------------------------------------------- C7
\* C7: in every state the order sequence has no repeated identity, and the
\* identities in it are exactly the keys of the instance map and exactly the
\* keys of the context map.
C7_RegistryConsistent ==
  /\ \A p, q \in DOMAIN serviceTypes :
       serviceTypes[p] = serviceTypes[q] => p = q
  /\ Registered = DOMAIN services
  /\ Registered = DOMAIN contexts
  /\ \A k \in Registered :
       /\ services[k] \in Instances /\ TypeOf(services[k]) = k
       /\ contexts[k] \in 1..nctx

\* Every type is registered, a registration was rejected, and StartAll and
\* StopAll have run.
C7_Witness ==
  /\ N = NumTypes
  /\ Idle("RegisterService")
  /\ call.err = ErrExists
  /\ tasks # <<>>
  /\ cancelled # {}

C9_StatusesOnePerService ==
  Idle("Statuses") =>
    /\ DOMAIN call.m = Registered
    /\ Len(call.log) = N
    /\ \A p \in DOMAIN call.log :
         /\ call.log[p].ev = "Status"
         /\ call.log[p].kind = serviceTypes[p]
         /\ call.log[p].svc = services[serviceTypes[p]]
         /\ call.m[serviceTypes[p]] = call.log[p].res

\* Statuses of two services: the first healthy, the second not.
C9_Witness ==
  /\ Idle("Statuses")
  /\ N >= 2
  /\ call.m[serviceTypes[1]] = NoError
  /\ call.m[serviceTypes[2]] # NoError

\* ---------------------------------------------------------------- C10
\* C10: a step in which Statuses returns leaves the instance map, the
\* context map and the order sequence unchanged, cancels no context,
\* dispatches no Start, and makes no call but Status calls.
C10_StatusesPureRead ==
  [][(call'.op = "Statuses" /\ call' # call)
       => /\ services' = services
          /\ contexts' = contexts
          /\ serviceTypes' = serviceTypes
          /\ cancelled' = cancelled
          /\ tasks' = tasks
          /\ nctx' = nctx
          /\ \A p \in DOMAIN call'.log : call'.log[p].ev = "Status"]_vars

\* Statuses has reported an error of a service whose context is not
\* cancelled and whose dispatched Start has not begun.
C10_Witness ==
  /\ Idle("Statuses")
  /\ \E k \in Registered :
       /\ call.m[k] # NoError
       /\ contexts[k] \notin cancelled
       /\ \E t \in DOMAIN tasks :
            tasks[t].kind = k /\ tasks[t].st = "dispatched"

\* ---------------------------------------------------------------- C11
\* The positions of the order sequence the running StopAll has not yet
\* processed (the Cancel of position i has not been made).
Unprocessed == IF pc \in {"StopAll", "Stop", "Cancel"} THEN 1..i ELSE {}

\* C11 as stated: at every point during StopAll the scope of every service
\* StopAll has not yet processed is uncancelled.
C11_Original ==
  call.op = "StopAll" =>
    \A j \in Unprocessed : contexts[serviceTypes[j]] \notin cancelled

\* C11 amended: a scope becomes cancelled only in the Cancel step of
\* StopAll, and that step cancels exactly the service context the processed
\* service was registered with; so during StopAll a Cancel changes the scope
\* of a not yet processed service only if that service was registered with
\* the same service context as the processed one.
C11_CancelOnlyOwnContext ==
  [][/\ \A c \in 1..MaxCtx :
          (c \in cancelled' /\ c \notin cancelled)
            => (pc = "Cancel" /\ c = contexts[serviceTypes[i]])
     /\ \A j \in Unprocessed :
          (pc = "Cancel" /\ contexts[serviceTypes[j]] # contexts[serviceTypes[i]])
            => ((contexts[serviceTypes[j]] \in cancelled') <=>
                  (contexts[serviceTypes[j]] \in cancelled))]_vars

\* StopAll has processed the last registered service and cancelled its
\* scope; the scope of an earlier service, registered with another service
\* context, is not cancelled.
C11_Witness ==
  /\ call.op = "StopAll"
  /\ pc = "StopAll"
  /\ i >= 1
  /\ i < N
  /\ contexts[serviceTypes[N]] \in cancelled
  /\ contexts[serviceTypes[i]] \notin cancelled

\* ---------------------------------------------------------------- C12
\* The scopes the Cancel calls of the current StopAll have cancelled.
CancelledByThisStopAll ==
  {call.log[p].ctx : p \in {q \in DOMAIN call.log : call.log[q].ev = "Cancel"}}

\* Every step of the caller thread but the return of a Stop call.
CallerStepButStopReturn ==
  \/ NewServiceContext \/ RegisterService \/ Statuses \/ FetchService
  \/ StartAllCall \/ StartAllDispatch \/ StartAllReturn
  \/ StopAllCall \/ StopInvoke \/ StopCancel \/ StopAllReturn

\* C12 as stated: while StopAll is inside a Stop call that has not returned,
\* this StopAll has not cancelled the scope of that service, and no service
\* registered earlier has received a Stop call from it or has had its scope
\* cancelled by it.
C12_Original ==
  pc = "Stop" =>
    /\ contexts[serviceTypes[i]] \notin CancelledByThisStopAll
    /\ \A j \in 1..(i - 1) :
         /\ contexts[serviceTypes[j]] \notin CancelledByThisStopAll
         /\ \A p \in DOMAIN call.log : call.log[p].kind # serviceTypes[j]

\* C12 amended: while StopAll is inside a Stop call that has not returned,
\* StopAll has not returned and the caller thread can take no step; StopAll
\* has made no Cancel call for that service and no Stop or Cancel call for
\* any service registered earlier (all its calls so far went to the services
\* registered later); and as long as the call does not return, no scope
\* changes and no call is made.
C12_StopAllBlockedWhileStopHangs ==
  [][pc = "Stop" =>
       /\ call.op = "StopAll"
       /\ ~ENABLED CallerStepButStopReturn
       /\ Len(call.log) = 3 * (N - i) + 1
       /\ call.log[Len(call.log)].ev = "Stop"
       /\ call.log[Len(call.log)].kind = serviceTypes[i]
       /\ \A p \in 1..(Len(call.log) - 1) : Pos(call.log[p].kind) > i
       /\ (pc' = "Stop" =>
             cancelled' = cancelled /\ call' = call /\ i' = i)]_vars

\* StopAll is inside the Stop call of the last registered of two services
\* with service contexts of their own, neither cancelled, while a dispatched
\* Start is running.
C12_Witness ==
  /\ pc = "Stop"
  /\ i = N
  /\ N >= 2
  /\ contexts[serviceTypes[1]] # contexts[serviceTypes[N]]
  /\ cancelled = {}
  /\ \E t \in DOMAIN tasks : tasks[t].st = "running"

\* ---------------------------------------------------------------- C13
\* C13: in every step the order sequence before is a prefix of the order
\* sequence after, and every identity keeps its instance and its context; a
\* step of StartAll, StopAll, Statuses or FetchService (and a step of a
\* Start goroutine after one of them) leaves the two maps and the sequence
\* unchanged; and when StopAll has returned, FetchService for the type of
\* each registered (now stopped) service still yields its instance, and
\* Statuses still has an entry for it.
C13_RegistryAppendOnly ==
  [][/\ Len(serviceTypes) <= Len(serviceTypes')
     /\ \A p \in DOMAIN serviceTypes : serviceTypes'[p] = serviceTypes[p]
     /\ \A k \in DOMAIN services :
          k \in DOMAIN services' /\ services'[k] = services[k]
     /\ \A k \in DOMAIN contexts :
          k \in DOMAIN contexts' /\ contexts'[k] = contexts[k]
     /\ (call'.op \in {"StartAll", "StopAll", "Statuses", "FetchService"}
           => /\ services' = services
              /\ contexts' = contexts
              /\ serviceTypes' = serviceTypes)
     /\ ((pc' = "idle" /\ call'.op = "StopAll")
           => \A p \in DOMAIN serviceTypes' :
                LET k == serviceTypes'[p] IN
                /\ k \in DOMAIN services'
                /\ FetchResult(services', CellOf(k)) =
                     [err |-> NoError, cell |-> services'[k]]
                /\ k \in DOMAIN StatusesResult(
                            serviceTypes', services',
                            [x \in DOMAIN services' |-> NoError]).m)]_vars

\* After a StopAll that cancelled its scope, a service has been fetched.
C13_Witness ==
  /\ Idle("FetchService")
  /\ call.err = NoError
  /\ call.target.type \in Registered
  /\ contexts[call.target.type] \in cancelled
  /\ N = NumTypes

\* ---------------------------------------------------------------- C14
\* The calls of a StopAll come in threes, one three per service in reverse
\* order of registration: the Stop call, its return, the Cancel call.
StopAllInThrees ==
  /\ \A p \in DOMAIN call.log :
       LET e == call.log[p] IN
       CASE p % 3 = 1 -> /\ e.ev = "Stop"
                         /\ (p - 1) \div 3 < N
                         /\ e.kind = serviceTypes[N - ((p - 1) \div 3)]
         [] p % 3 = 2 -> /\ e.ev = "Stop returned"
                         /\ e.kind = call.log[p - 1].kind
         [] OTHER     -> /\ e.ev = "Cancel"
                         /\ e.kind = call.log[p - 1].kind
                         /\ e.ctx = contexts[e.kind]
                         /\ e.ctx \in cancelled
  /\ (pc = "Stop" <=> Len(call.log) % 3 = 1)
  /\ (pc = "Cancel" <=> Len(call.log) % 3 = 2)

\* C14 as stated: in a StopAll, the Stop call of a service is made while
\* this StopAll has not yet cancelled the scope of that service, its Cancel
\* is made only after its Stop call has returned, and before the Stop call
\* of the service registered before it.
C14_Original ==
  call.op = "StopAll" =>
    /\ StopAllInThrees
    /\ \A p, q \in DOMAIN call.log :
         (call.log[p].ev = "Cancel" /\ call.log[q].ev = "Stop" /\ p < q)
           => call.log[p].ctx # call.log[q].ctx

\* C14 amended: in a StopAll, the Stop call of a service is made before
\* this StopAll makes the Cancel call of that service, its Cancel is made
\* only after its Stop call has returned, and before the Stop call of the
\* service registered before it; each Cancel cancels the service context of
\* its service. (When the Stop call is made, the scope is already cancelled
\* by this StopAll if the service context is also that of a service
\* registered later.)
C14_StopReturnThenCancelThenNextStop ==
  call.op = "StopAll" =>
    /\ StopAllInThrees
    /\ \A p, q \in DOMAIN call.log :
         (call.log[p].ev = "Cancel" /\ call.log[q].ev = "Stop" /\ p < q)
           => /\ call.log[p].kind # call.log[q].kind
              /\ (call.log[p].ctx = call.log[q].ctx
                    <=> contexts[call.log[p].kind] = contexts[call.log[q].kind])

\* The Stop call of the first registered service has returned and its
\* Cancel is still to come; the Cancel of the second one has been made.
C14_Witness ==
  /\ call.op = "StopAll"
  /\ pc = "Cancel"
  /\ i = 1
  /\ N >= 2
  /\ contexts[serviceTypes[2]] \in cancelled
  /\ contexts[serviceTypes[1]] \notin cancelled

\* ---------------------------------------------------------------- C15
\* C15: a step in which FetchService returns leaves the instance map, the
\* context map, the order sequence, the scopes and the dispatched Starts
\* unchanged; when it fails, the target holds what it held before the call;
\* when it succeeds, the cell holds the registered instance.
C15_FetchServiceFrame ==
  [][(call'.op = "FetchService" /\ call' # call)
       => /\ services' = services
          /\ contexts' = contexts
          /\ serviceTypes' = serviceTypes
          /\ cancelled' = cancelled
          /\ tasks' = tasks
          /\ nctx' = nctx
          /\ call'.log = <<>>
          /\ (call'.err # NoError => call'.cell = call'.target.val)
          /\ (call'.err = NoError =>
                call'.cell = services[call'.target.type])]_vars

\* A fetch into a cell that holds an instance of a type not registered has
\* failed, the cell still holding that instance.
C15_Witness ==
  /\ Idle("FetchService")
  /\ call.err = ErrUnknown
  /\ call.target.val # NoInstance
  /\ call.cell = call.target.val
  /\ N >= 1

\* ---------------------------------------------------------------- C16
\* C16: a step in which RegisterService returns dispatches no Start, makes
\* no Stop call and cancels no scope, and after a successful registration no
\* Start of the new service has been dispatched; a Start is dispatched only
\* by a step of StartAll; and the first Stop call of a StopAll goes to the
\* service registered last, started or not.
C16_RegisterStartsNothing ==
  [][/\ (call'.op = "RegisterService" /\ call' # call)
          => /\ tasks' = tasks
             /\ cancelled' = cancelled
             /\ call'.log = <<>>
             /\ (call'.err = NoError =>
                   \A t \in DOMAIN tasks' :
                     tasks'[t].kind # TypeOf(call'.svc))
     /\ Len(tasks') > Len(tasks) => (pc = "StartAll" /\ call.op = "StartAll")
     /\ (call'.op = "StopAll" /\ call'.log # <<>>)
          => /\ call'.log[1].ev = "Stop"
             /\ call'.log[1].kind = serviceTypes'[Len(serviceTypes')]]_vars

\* A StopAll is inside its first Stop call, that of a service registered
\* after the only StartAll: no Start of it was dispatched, while the Start
\* of the service registered before is running.
C16_Witness ==
  /\ pc = "Stop"
  /\ i = N
  /\ N >= 2
  /\ \A t \in DOMAIN tasks : tasks[t].kind # serviceTypes[N]
  /\ \E t \in DOMAIN tasks :
       tasks[t].kind = serviceTypes[1] /\ tasks[t].st = "running"

\* ---------------------------------------------------------------- C17
LastRound == IF tasks = <<>> THEN 0 ELSE tasks[Len(tasks)].round
TasksOf(kind, r) ==
  {t \in DOMAIN tasks : tasks[t].kind = kind /\ tasks[t].round = r}
DispatchingRound == pc = "StartAll" /\ call.log # <<>>

\* Every StartAll call dispatches one Start for every service registered
\* when it runs: a StartAll dispatches at most one Start per service, with
\* the Start of a service those of all services registered before it, and
\* a service started by one StartAll is started again by every later one.
EveryStartAllStartsAll ==
  \A k \in Registered : \A r \in 1..LastRound :
    /\ Cardinality(TasksOf(k, r)) <= 1
    /\ TasksOf(k, r) # {} =>
         /\ \A k2 \in Registered : Pos(k2) < Pos(k) => TasksOf(k2, r) # {}
         /\ (r < LastRound
               /\ (r + 1 < LastRound \/ ~DispatchingRound \/ Pos(k) < i))
              => TasksOf(k, r + 1) # {}

\* C17: every StartAll call dispatches Start once more for every registered
\* service; StartAll and StopAll can be called whenever the caller is idle,
\* whatever was called before (StartAll up to the bound on dispatches); a
\* StopAll makes its Stop calls whether or not the scope is cancelled and
\* whether or not a Start was dispatched, one per service in reverse order;
\* and a Cancel of a cancelled scope changes no scope.
C17_NoGuardOnRepeatedCalls ==
  [][/\ EveryStartAllStartsAll'
     /\ (pc = "StartAll" /\ Len(call'.log) = Len(call.log) + 1)
          => LET e == call'.log[Len(call'.log)] IN
             /\ e.ev = "go Start"
             /\ e.kind = serviceTypes[Len(call'.log)]
             /\ Len(tasks') = Len(tasks) + 1
             /\ tasks'[Len(tasks')].kind = e.kind
             /\ tasks'[Len(tasks')].st = "dispatched"
     /\ (pc' = "idle" /\ call'.op = "StartAll")
          => Len(call'.log) = Len(serviceTypes')
     /\ pc = "idle" => ENABLED StopAllCall
     /\ (pc = "idle" /\ Len(tasks) + N <= MaxTasks) => ENABLED StartAllCall
     /\ (pc = "StopAll" /\ i >= 1) => ENABLED StopInvoke
     /\ (pc' = "idle" /\ call'.op = "StopAll")
          => /\ Len(call'.log) = 3 * Len(serviceTypes')
             /\ \A p \in 1..Len(serviceTypes') :
                  /\ call'.log[3 * p - 2].ev = "Stop"
                  /\ call'.log[3 * p - 2].kind =
                       serviceTypes'[Len(serviceTypes') + 1 - p]
     /\ (pc = "Cancel" /\ contexts[serviceTypes[i]] \in cancelled)
          => cancelled' = cancelled]_vars

\* A second StopAll is inside its first Stop call: the scopes of both
\* services, of service contexts of their own, were cancelled before, and
\* two StartAll calls have dispatched the Start of the first service twice.
C17_Witness ==
  /\ pc = "Stop"
  /\ i = N
  /\ N >= 2
  /\ contexts[serviceTypes[1]] # contexts[serviceTypes[2]]
  /\ \A k \in Registered : contexts[k] \in cancelled
  /\ Cardinality({t \in DOMAIN tasks : tasks[t].kind = serviceTypes[1]}) = 2

\* ---------------------------------------------------------------- C18
\* C18: StopAll never waits for a Start: whatever the dispatched Starts have
\* done, the Stop call of the next service can be made, the Cancel after a
\* returned Stop call can be made, and StopAll can return after the last
\* one; a dispatched Start that has not begun can still begin, during and
\* after StopAll; and no step of StopAll dispatches a Start, so every
\* dispatch precedes the Stop calls of a StopAll called after it.
C18_StopAllDoesNotWaitForStart ==
  [][/\ (pc = "StopAll" /\ i >= 1) => ENABLED StopInvoke
     /\ pc = "Cancel" => ENABLED StopCancel
     /\ (pc = "StopAll" /\ i < 1) => ENABLED StopAllReturn
     /\ (\E t \in DOMAIN tasks : tasks[t].st = "dispatched")
          => ENABLED StartBegin
     /\ (call.op = "StopAll" /\ call'.op = "StopAll")
          => Len(tasks') = Len(tasks)]_vars

\* StopAll has returned: every registered service had its Stop call and its
\* scope cancelled, and a Start dispatched for each, none of which has
\* begun.
C18_Witness ==
  /\ Idle("StopAll")
  /\ N >= 2
  /\ \A k \in Registered :
       /\ contexts[k] \in cancelled
       /\ \E t \in DOMAIN tasks : tasks[t].kind = k
  /\ \A t \in DOMAIN tasks : tasks[t].st = "dispatched"

\* ---------------------------------------------------------------- C19
Cancels == SelectSeq(call.log, IsCancel)

StopAllDone ==
  /\ Idle("StopAll")
  /\ Len(StopCalls) = N
  /\ Len(Cancels) = N
  /\ \A k \in Registered :
       /\ Cardinality({p \in DOMAIN StopCalls : StopCalls[p].kind = k}) = 1
       /\ Cardinality({p \in DOMAIN Cancels : Cancels[p].kind = k}) = 1

\* With an empty registry StartAll and StopAll can only return, having
\* called nothing, and Statuses returns an empty mapping, having called
\* nothing.
EmptyRegistryCallsNothing ==
  N = 0 =>
    /\ tasks = <<>>
    /\ cancelled = {}
    /\ (pc = "StartAll" => ENABLED StartAllReturn /\ ~ENABLED StartAllDispatch)
    /\ (pc = "StopAll" => ENABLED StopAllReturn /\ ~ENABLED StopInvoke)
    /\ pc \in {"idle", "StartAll", "StopAll"}
    /\ (call.op \in {"StartAll", "StopAll", "Statuses"} =>
          call.log = <<>> /\ DOMAIN call.m = {})

\* C19: if the caller thread keeps running and every Stop call returns, a
\* StopAll that was called returns, having made exactly one Stop call and
\* exactly one Cancel call for each of the registered services; and with an
\* empty registry StartAll, StopAll and Statuses return at once, having
\* called nothing, Statuses with an empty mapping.
C19_StopAllTerminates ==
  /\ (call.op = "StopAll" /\ pc # "idle") ~> StopAllDone
  /\ []EmptyRegistryCallsNothing

\* A StopAll called with no StartAll before it has returned after a Stop
\* call and a Cancel call for each of two services.
C19_Witness ==
  /\ StopAllDone
  /\ N = NumTypes
  /\ N >= 2
  /\ tasks = <<>>

====
